---- MODULE Spec2Model ----
(***************************************************************************)
(* A model of the content-filter workflow of openai-rust-client:           *)
(*   src/src/content_filter.rs          create_content_filter_request,     *)
(*                                       determine_filter_label,            *)
(*                                       filter_content                     *)
(*   src/src/lib.rs                      OpenAIClient::send                 *)
(*   src/src/endpoints/create_completion.rs                                 *)
(*                                       CreateCompletionBuilder,           *)
(*                                       CreateCompletion (Serialize),      *)
(*                                       Choice / LogProbs (Deserialize)    *)
(*                                                                         *)
(* Conventions.                                                            *)
(*   - A Rust String whose content is built or compared is a sequence of   *)
(*     one-character strings; fixed messages and map keys are TLA+ strings.*)
(*   - An f32 is an integer number of thousandths (-0.355 is -355); the    *)
(*     code only orders and compares them, and JSON carries no NaN.        *)
(*   - Option<T> is None or Some(v); Result<T, E> is Ok(v) or Err(e).      *)
(*   - Struct fields that no modelled code reads (Choice::index,           *)
(*     Choice::finish_reason, LogProbs::tokens, ...) are left out of the   *)
(*     in-memory records.                                                  *)
(***************************************************************************)
EXTENDS Integers, Sequences, FiniteSets, TLC

VARIABLES
    pc,       \* position of the running operation
    text,     \* the text handed to create_content_filter_request / filter_content
    req,      \* Result<CreateCompletion, String> of create_content_filter_request
    sent,     \* the HTTP requests handed to the transport so far, in order
    replies,  \* what the backend answered to each of them, in order
    resp,     \* the CreateCompletionResponse handed to determine_filter_label
    label,    \* Result<FilterLabel, ClassificationError> of determine_filter_label
    result,   \* Result<FilterLabel, String> returned by filter_content
    builder,  \* CreateCompletionBuilder::create_completion of the builder in use
    calls     \* the setter calls made on that builder so far, in order

vars == <<pc, text, req, sent, replies, resp, label, result, builder, calls>>

----------------------------------------------------------------------------
(* Bounds of the model *)

\* longest vector of choices in a response
MaxChoices == 2
\* longest Choice::log_probs vector
MaxLogProbs == 2
\* longest LogProbs::top_logprobs vector
MaxTop == 2
\* longest input text
MaxTextLen == 3

----------------------------------------------------------------------------
(* Option and Result *)

None == [some |-> FALSE]
Some(v) == [some |-> TRUE, val |-> v]

Ok(v) == [ok |-> TRUE, val |-> v]
Err(e) == [ok |-> FALSE, err |-> e]

\* value of a variable that the running operation has not assigned yet
Unset == [unset |-> TRUE]

SeqsUpTo(S, n) == UNION {[1..k -> S] : k \in 0..n}

----------------------------------------------------------------------------
(* content_filter.rs: the label decision *)

\* const TOXIC_THRESHOLD: f32 = -0.355, in thousandths
TOXIC_THRESHOLD == -355

\* HashMap::get
get(map, key) == IF key \in DOMAIN map THEN Some(map[key]) ELSE None

\* slice::get(0)
get0(vec) == IF Len(vec) > 0 THEN Some(vec[1]) ELSE None

\* variant: the threshold itself is not toxic
is_toxic_strict(unsafe_lp) == unsafe_lp > TOXIC_THRESHOLD

\* `unsafe_lp >= &TOXIC_THRESHOLD`
is_toxic(unsafe_lp) == unsafe_lp >= TOXIC_THRESHOLD

\* variant: a tie between "0" and "1" goes to Sensitive
compare_candidates_tie_sensitive(top_lp) ==
    LET safe_lp == get(top_lp, "0")
        sensitive_lp == get(top_lp, "1")
    IN  IF safe_lp.some /\ sensitive_lp.some
        THEN IF safe_lp.val > sensitive_lp.val THEN "Safe" ELSE "Sensitive"
        ELSE IF safe_lp.some THEN "Safe"
        ELSE IF sensitive_lp.some THEN "Sensitive"
        ELSE "Unsafe"

\* the match over (safe_lp, sensitive_lp)
compare_candidates(top_lp) ==
    LET safe_lp == get(top_lp, "0")
        sensitive_lp == get(top_lp, "1")
    IN  IF safe_lp.some /\ sensitive_lp.some
        THEN IF safe_lp.val >= sensitive_lp.val THEN "Safe" ELSE "Sensitive"
        ELSE IF safe_lp.some THEN "Safe"
        ELSE IF sensitive_lp.some THEN "Sensitive"
        ELSE "Unsafe"

\* variant: a map without "2" is compared instead of rejected
label_from_log_probs_lenient(label_choice) ==
    IF ~label_choice.log_probs.some THEN Err("MissingLogProbs")
    ELSE LET lp == get0(label_choice.log_probs.val)
         IN  IF ~lp.some THEN Err("MissingLogProbs")
             ELSE LET top_lp == get0(lp.val.top_logprobs)
                  IN  IF ~top_lp.some THEN Err("MissingLogProbs")
                      ELSE LET unsafe_lp == get(top_lp.val, "2")
                           IN  IF unsafe_lp.some /\ is_toxic(unsafe_lp.val)
                               THEN Ok("Unsafe")
                               ELSE Ok(compare_candidates(top_lp.val))

\* the branch for text "2": the four ok_or(MissingLogProbs)? lookups, the
\* threshold override, then the comparison of the other candidates
label_from_log_probs(label_choice) ==
    IF ~label_choice.log_probs.some THEN Err("MissingLogProbs")
    ELSE LET lp == get0(label_choice.log_probs.val)
         IN  IF ~lp.some THEN Err("MissingLogProbs")
             ELSE LET top_lp == get0(lp.val.top_logprobs)
                  IN  IF ~top_lp.some THEN Err("MissingLogProbs")
                      ELSE LET unsafe_lp == get(top_lp.val, "2")
                           IN  IF ~unsafe_lp.some THEN Err("MissingLogProbs")
                               ELSE IF is_toxic(unsafe_lp.val) THEN Ok("Unsafe")
                               ELSE Ok(compare_candidates(top_lp.val))

\* variant: white space around the label is ignored
label_from_text_trimmed(label_choice) ==
    LET t == SelectSeq(label_choice.text, LAMBDA ch : ch # " ")
    IN  IF t = <<"0">> THEN Ok("Safe")
        ELSE IF t = <<"1">> THEN Ok("Sensitive")
        ELSE IF t = <<"2">> THEN label_from_log_probs(label_choice)
        ELSE Err("UnexpectedLabel")

\* the if / else if chain over label_choice.text
label_from_text(label_choice) ==
    IF label_choice.text = <<"0">> THEN Ok("Safe")
    ELSE IF label_choice.text = <<"1">> THEN Ok("Sensitive")
    ELSE IF label_choice.text = <<"2">> THEN label_from_log_probs(label_choice)
    ELSE Err("UnexpectedLabel")

\* variant: the last choice is used however many there are
determine_filter_label_last_wins(r) ==
    IF Len(r.choices) = 0 THEN Err("NoLabelFound")
    ELSE label_from_text(r.choices[Len(r.choices)])

\* pop() takes the last choice; what is left must be empty
determine_filter_label(r) ==
    IF Len(r.choices) = 0 THEN Err("NoLabelFound")
    ELSE LET label_choice == r.choices[Len(r.choices)]
             rest == SubSeq(r.choices, 1, Len(r.choices) - 1)
         IN  IF rest # <<>> THEN Err("TooManyLabels")
             ELSE label_from_text(label_choice)

----------------------------------------------------------------------------
(* The responses the label decision is tried on *)

\* candidate tokens of a top-candidate map
Candidates == {"0", "1", "2"}

\* log-probabilities, in thousandths: well below, just below, at and above
\* the threshold
LogProbValues == {-5000, -356, -355, -100}

\* every map from some of the candidates to these log-probabilities
AllMaps == UNION {[K -> LogProbValues] : K \in SUBSET Candidates}

\* what follows the first element of a vector: an element that would decide
\* differently were it read instead of the first
LaterMaps == {[k \in {"2"} |-> -100]}
LaterLogProbs == {[top_logprobs |-> <<[k \in {"2"} |-> -100]>>]}
EarlierChoices ==
    { [text |-> <<"0">>, log_probs |-> None],
      [text |-> <<"2">>,
       log_probs |-> Some(<<[top_logprobs |-> <<[k \in {"2"} |-> -100]>>]>>)] }

\* generated texts: the three labels, an unknown label, the empty string,
\* a label with leading white space
ChoiceTexts == {<<"0">>, <<"1">>, <<"2">>, <<"3">>, <<>>, <<" ", "0">>}

TopSeqs(M) ==
    {<<>>} \cup {<<m>> \o t : m \in M, t \in SeqsUpTo(LaterMaps, MaxTop - 1)}

LogProbsVecs(M) ==
    {<<>>} \cup
    { <<[top_logprobs |-> s]>> \o t :
        s \in TopSeqs(M), t \in SeqsUpTo(LaterLogProbs, MaxLogProbs - 1) }

OptLogProbs(M) == {None} \cup {Some(v) : v \in LogProbsVecs(M)}

Choices(M) == [text : ChoiceTexts, log_probs : OptLogProbs(M)]

Responses(M) ==
    {[choices |-> <<>>]} \cup
    { [choices |-> d \o <<c>>] :
        c \in Choices(M), d \in SeqsUpTo(EarlierChoices, MaxChoices - 1) }

----------------------------------------------------------------------------
(* SpecLabel: determine_filter_label applied to every response above *)

InitLabel ==
    /\ pc = "label_input"
    /\ resp \in Responses(AllMaps)
    /\ label = Unset
    /\ text = Unset /\ req = Unset /\ result = Unset
    /\ sent = <<>> /\ replies = <<>>
    /\ builder = Unset /\ calls = <<>>

DetermineFilterLabel ==
    /\ pc = "label_input"
    /\ label' = determine_filter_label(resp)
    /\ pc' = "label_done"
    /\ UNCHANGED <<text, req, sent, replies, resp, result, builder, calls>>

NextLabel == DetermineFilterLabel

SpecLabel == InitLabel /\ [][NextLabel]_vars

----------------------------------------------------------------------------
(* create_completion.rs: CreateCompletion and its builder *)

\* NullableOneOrMany<T>
NoneOfMany == [kind |-> "None"]
One(s) == [kind |-> "One", one |-> s]
Many(v) == [kind |-> "Many", many |-> v]

\* CreateCompletionBuilder::new
new(engine_id) ==
    Ok([ engine_id |-> engine_id,
         prompt |-> NoneOfMany,
         suffix |-> None,
         max_tokens |-> None,
         temperature |-> None,
         top_p |-> None,
         n |-> None,
         log_probs |-> None,
         echo |-> FALSE,
         stop |-> NoneOfMany,
         presence_penalty |-> None,
         best_of |-> None,
         logit |-> None ])

\* CreateCompletionBuilder::prompt
prompt(self, p) ==
    IF self.ok THEN Ok([self.val EXCEPT !.prompt = p]) ELSE self

\* CreateCompletionBuilder::max_tokens
max_tokens(self, v) ==
    IF self.ok
    THEN IF v > 4096
         THEN Err("Max tokens cannot exceed 4096 on any model")
         ELSE Ok([self.val EXCEPT !.max_tokens = Some(v)])
    ELSE self

\* CreateCompletionBuilder::temperature; (0.0..=1.0) is 0..1000 thousandths
temperature(self, v) ==
    IF self.ok
    THEN IF ~(0 <= v /\ v <= 1000)
         THEN Err("Temperature must be in range [0, 1.0]")
         ELSE Ok([self.val EXCEPT !.temperature = Some(v)])
    ELSE self

\* variant: an out-of-range top_p replaces an error recorded earlier
top_p_overwrites_error(self, v) ==
    IF ~(0 <= v /\ v <= 1000)
    THEN Err("top_p must be in range [0, 1.0]")
    ELSE IF self.ok THEN Ok([self.val EXCEPT !.top_p = Some(v)]) ELSE self

\* CreateCompletionBuilder::top_p
top_p(self, v) ==
    IF self.ok
    THEN IF ~(0 <= v /\ v <= 1000)
         THEN Err("top_p must be in range [0, 1.0]")
         ELSE Ok([self.val EXCEPT !.top_p = Some(v)])
    ELSE self

\* CreateCompletionBuilder::log_probs
log_probs(self, v) ==
    IF self.ok THEN Ok([self.val EXCEPT !.log_probs = Some(v)]) ELSE self

\* CreateCompletionBuilder::suffix
suffix(self, v) ==
    IF self.ok THEN Ok([self.val EXCEPT !.suffix = Some(v)]) ELSE self

\* CreateCompletionBuilder::n
n(self, v) ==
    IF self.ok THEN Ok([self.val EXCEPT !.n = Some(v)]) ELSE self

\* CreateCompletionBuilder::echo
echo(self, v) ==
    IF self.ok THEN Ok([self.val EXCEPT !.echo = v]) ELSE self

\* CreateCompletionBuilder::stop
stop(self, v) ==
    IF self.ok THEN Ok([self.val EXCEPT !.stop = v]) ELSE self

\* CreateCompletionBuilder::presence_penalty; (-2.0..=2.0) is -2000..2000
\* thousandths, and the message is the one the code gives
presence_penalty(self, v) ==
    IF self.ok
    THEN IF ~(-2000 <= v /\ v <= 2000)
         THEN Err("Temperature must be in range [0, 1.0]")
         ELSE Ok([self.val EXCEPT !.presence_penalty = Some(v)])
    ELSE self

\* CreateCompletionBuilder::best_of
best_of(self, v) ==
    IF self.ok THEN Ok([self.val EXCEPT !.best_of = Some(v)]) ELSE self

\* CreateCompletionBuilder::logit
logit(self, v) ==
    IF self.ok THEN Ok([self.val EXCEPT !.logit = Some(v)]) ELSE self

\* CreateCompletionBuilder::build
build(self) ==
    IF ~self.ok THEN self
    ELSE LET cc == self.val
         IN  IF cc.n.some /\ cc.best_of.some /\ cc.n.val <= cc.best_of.val
             THEN Err("If both are specified, best_of must be greater than n")
             ELSE Ok(cc)

----------------------------------------------------------------------------
(* SpecBuilder: every sequence of setter calls on a builder, then build() *)

\* most setter calls made on one builder
MaxCalls == 3

\* arguments of the setters: for the checked ones the ends of the accepted
\* range and the first values beyond them; f32 in thousandths
PromptArgs == {One(<<"a">>), Many(<< <<"a">>, <<"b">> >>)}
SuffixArgs == {<<"!">>}
MaxTokensArgs == {16, 4096, 4097}
TemperatureArgs == {-1, 0, 1000, 1001}
TopPArgs == {-1, 500, 1001}
CountArgs == {1, 2}
LogProbsArgs == {5}
StopArgs == {One(<<"\n">>)}
PresencePenaltyArgs == {-2001, -2000, 2000, 2001}
LogitArgs == {[t \in {"50256"} |-> -100000]}

InitBuilder ==
    /\ pc = "builder"
    /\ builder = new("text-davinci-002")
    /\ calls = <<>>
    /\ text = Unset /\ req = Unset
    /\ resp = Unset /\ label = Unset /\ result = Unset
    /\ sent = <<>> /\ replies = <<>>

\* one setter call: the builder is replaced by what the setter returns
Call(setter, arg, after) ==
    /\ pc = "builder"
    /\ Len(calls) < MaxCalls
    /\ builder' = after
    /\ calls' = Append(calls, [setter |-> setter, arg |-> arg, after |-> after])
    /\ UNCHANGED <<pc, text, req, sent, replies, resp, label, result>>

CallPrompt == \E v \in PromptArgs : Call("prompt", v, prompt(builder, v))
CallSuffix == \E v \in SuffixArgs : Call("suffix", v, suffix(builder, v))
CallMaxTokens ==
    \E v \in MaxTokensArgs : Call("max_tokens", v, max_tokens(builder, v))
CallTemperature ==
    \E v \in TemperatureArgs : Call("temperature", v, temperature(builder, v))
CallTopP == \E v \in TopPArgs : Call("top_p", v, top_p(builder, v))
CallN == \E v \in CountArgs : Call("n", v, n(builder, v))
CallLogProbs ==
    \E v \in LogProbsArgs : Call("log_probs", v, log_probs(builder, v))
CallEcho == \E v \in BOOLEAN : Call("echo", v, echo(builder, v))
CallStop == \E v \in StopArgs : Call("stop", v, stop(builder, v))
CallPresencePenalty ==
    \E v \in PresencePenaltyArgs :
        Call("presence_penalty", v, presence_penalty(builder, v))
CallBestOf == \E v \in CountArgs : Call("best_of", v, best_of(builder, v))
CallLogit == \E v \in LogitArgs : Call("logit", v, logit(builder, v))

\* build() consumes the builder
Build ==
    /\ pc = "builder"
    /\ req' = build(builder)
    /\ pc' = "built"
    /\ UNCHANGED <<text, sent, replies, resp, label, result, builder, calls>>

NextBuilder ==
    \/ CallPrompt \/ CallSuffix \/ CallMaxTokens \/ CallTemperature
    \/ CallTopP \/ CallN \/ CallLogProbs \/ CallEcho \/ CallStop
    \/ CallPresencePenalty \/ CallBestOf \/ CallLogit
    \/ Build

SpecBuilder == InitBuilder /\ [][NextBuilder]_vars

----------------------------------------------------------------------------
(* content_filter.rs: the request *)

\* "<|endoftext|>"
SENTINEL ==
    <<"<", "|", "e", "n", "d", "o", "f", "t", "e", "x", "t", "|", ">">>

\* "\n--\nLabel:"
LABEL_SUFFIX == <<"\n", "-", "-", "\n", "L", "a", "b", "e", "l", ":">>

\* format!("<|endoftext|>{}\n--\nLabel:", text)
format_prompt(t) == SENTINEL \o t \o LABEL_SUFFIX

\* variant: the documented maximum of 5 log-probabilities is asked for
create_content_filter_request_five_logprobs(t) ==
    build(prompt(log_probs(top_p(temperature(max_tokens(
        new("content-filter-alpha"), 1), 0), 0), 5), One(format_prompt(t))))

\* the builder chain of create_content_filter_request
create_content_filter_request(t) ==
    build(prompt(log_probs(top_p(temperature(max_tokens(
        new("content-filter-alpha"), 1), 0), 0), 10), One(format_prompt(t))))

\* characters of the input texts
Alphabet == {"a", "\n", "-", "<"}

Texts == SeqsUpTo(Alphabet, MaxTextLen)

----------------------------------------------------------------------------
(* SpecRequest: create_content_filter_request applied to every text *)

InitRequest ==
    /\ pc = "request_input"
    /\ text \in Texts
    /\ req = Unset
    /\ resp = Unset /\ label = Unset /\ result = Unset
    /\ sent = <<>> /\ replies = <<>>
    /\ builder = Unset /\ calls = <<>>

CreateContentFilterRequest ==
    /\ pc = "request_input"
    /\ req' = create_content_filter_request(text)
    /\ pc' = "request_done"
    /\ UNCHANGED <<text, sent, replies, resp, label, result, builder, calls>>

NextRequest == CreateContentFilterRequest

SpecRequest == InitRequest /\ [][NextRequest]_vars

----------------------------------------------------------------------------
(* lib.rs and create_completion.rs: the transport *)

\* const BASE_URL
BASE_URL == "https://api.openai.com/v1"

\* ApiKey of the client
ApiKeyOfClient == "api-key"

\* impl Request for CreateCompletion: endpoint()
endpoint(cc) == <<"engines/", cc.engine_id, "/completions">>

\* format!("{}/{}", BASE_URL, endpoint)
build_url(ep) == <<BASE_URL, "/">> \o ep

\* impl Serialize for CreateCompletion: the JSON object, a map from the keys
\* written to their values; `stop` is never written
serialize(cc) ==
    LET optional == {"suffix", "max_tokens", "temperature", "top_p", "n",
                     "log_probs", "presence_penalty", "best_of", "logit"}
        key(f) == IF f = "log_probs" THEN "logprobs" ELSE f
        written == {f \in optional : cc[f].some}
        keys == {key(f) : f \in written} \cup {"echo"}
                  \cup (IF cc.prompt.kind = "None" THEN {} ELSE {"prompt"})
    IN  [k \in keys |->
            IF k = "echo" THEN cc.echo
            ELSE IF k = "prompt"
                 THEN (IF cc.prompt.kind = "One" THEN cc.prompt.one
                       ELSE cc.prompt.many)
            ELSE IF k = "logprobs" THEN cc.log_probs.val
            ELSE cc[k].val]

\* the request OpenAIClient::send hands to reqwest
http_request(cc) ==
    [ method |-> "POST",
      url |-> build_url(endpoint(cc)),
      bearer_auth |-> ApiKeyOfClient,
      json |-> serialize(cc) ]

\* #[derive(Deserialize)] of CreateCompletionResponse, Choice, LogProbs: a
\* field is read from the key of its own name, a missing Option field is
\* None, and keys that name no field (such as `logprobs`) are ignored
deserialize(doc) ==
    [choices |->
        [i \in 1..Len(doc.choices) |->
            [ text |-> doc.choices[i].text,
              log_probs |-> doc.choices[i].log_probs ]]]

\* variant: status 400 itself is not a client error
is_client_error_above_400(status) == 400 < status /\ status < 500

\* StatusCode::is_client_error
is_client_error(status) == 400 <= status /\ status < 500

\* OpenAIClient::send, from what the transport delivers
send(reply) ==
    IF ~reply.net THEN Err([kind |-> "HttpError"])
    ELSE IF is_client_error(reply.status)
    THEN IF ~reply.body.readable THEN Err([kind |-> "HttpError"])
         ELSE Err([kind |-> "ClientError", status |-> reply.status,
                   err |-> reply.body])
    ELSE IF ~reply.body.readable \/ ~reply.body.conforms
    THEN Err([kind |-> "DeserializeError"])
    ELSE Ok(deserialize(reply.body.doc))

----------------------------------------------------------------------------
(* What the backend may answer *)

\* status codes of the answers: success, redirection, the ends of the
\* client-error range, server error
Statuses == {200, 301, 400, 499, 500}

\* top-candidate maps of the answers: one for each way the decision can go
SomeMaps ==
    { [k \in {"2"} |-> -355],
      [k \in {"0", "1", "2"} |-> IF k = "1" THEN -100 ELSE -356],
      [k \in {"0", "2"} |-> IF k = "0" THEN -100 ELSE -5000],
      [k \in {"0"} |-> -100] }

\* a choice on the wire: `logprobs` is the key of the documented API,
\* `log_probs` the key the Choice struct reads
WireChoices ==
    [ text : ChoiceTexts,
      logprobs : {None} \cup {Some([top_logprobs |-> <<m>>]) : m \in SomeMaps},
      log_probs : OptLogProbs(SomeMaps) ]

EarlierWireChoices ==
    { [text |-> <<"0">>, logprobs |-> None, log_probs |-> None],
      [text |-> <<"2">>, logprobs |-> None,
       log_probs |-> Some(<<[top_logprobs |-> <<[k \in {"2"} |-> -100]>>]>>)] }

WireDocs ==
    {[choices |-> <<>>]} \cup
    { [choices |-> d \o <<c>>] :
        c \in WireChoices, d \in SeqsUpTo(EarlierWireChoices, MaxChoices - 1) }

\* a body: one that cannot be read to its end, one that is no completion
\* response, or a completion response
Bodies ==
    { [readable |-> FALSE], [readable |-> TRUE, conforms |-> FALSE] } \cup
    { [readable |-> TRUE, conforms |-> TRUE, doc |-> d] : d \in WireDocs }

\* an answer: the request fails in the transport, or a status and a body
Replies ==
    {[net |-> FALSE]} \cup
    {[net |-> TRUE, status |-> s, body |-> b] : s \in Statuses, b \in Bodies}

----------------------------------------------------------------------------
(* content_filter.rs: filter_content *)

\* Error::to_string of a transport error (the text is not modelled)
to_string(e) == <<"Error", e>>

\* variant: a failed decision falls back to Safe
map_classification_err_default_safe(l) ==
    IF l.ok THEN l ELSE Ok("Safe")

\* determine_filter_label(resp).map_err(|_| "Error classifying text. ...")
map_classification_err(l) ==
    IF l.ok THEN l
    ELSE Err("Error classifying text. You should treat this like an Unsafe classification")

\* variant: a DeserializeError is retried as well
match_first_error_retry_deserialize(e) ==
    IF e.kind = "ClientError"
    THEN [retry |-> FALSE,
          result |-> Err(<<"Error making content filter request: status",
                           e.status, "| error", e.err>>)]
    ELSE [retry |-> TRUE]

\* the match over the first call's error: retry, or the error to return
match_first_error(e) ==
    IF e.kind = "HttpError" THEN [retry |-> TRUE]
    ELSE IF e.kind = "ClientError"
    THEN [retry |-> FALSE,
          result |-> Err(<<"Error making content filter request: status",
                           e.status, "| error", e.err>>)]
    ELSE [retry |-> FALSE,
          result |-> Err(<<"Error deserializing content filter response:", e>>)]

\* texts the workflow is run on
WorkflowTexts == {<<>>, <<"a">>}

Init ==
    /\ pc = "start"
    /\ text \in WorkflowTexts
    /\ req = Unset /\ resp = Unset /\ label = Unset /\ result = Unset
    /\ sent = <<>> /\ replies = <<>>
    /\ builder = Unset /\ calls = <<>>

\* the response goes to determine_filter_label and the outcome is returned
Classify(r) ==
    /\ resp' = r
    /\ label' = determine_filter_label(r)
    /\ result' = map_classification_err(label')
    /\ pc' = "done"

\* filter_content up to its first await: the request is built and, unless the
\* builder refuses it, sent
Start ==
    /\ pc = "start"
    /\ req' = create_content_filter_request(text)
    /\ IF req'.ok
       THEN /\ sent' = <<http_request(req'.val)>>
            /\ pc' = "await1"
            /\ UNCHANGED result
       ELSE /\ result' = Err(req'.err)
            /\ pc' = "done"
            /\ UNCHANGED sent
    /\ UNCHANGED <<text, replies, resp, label, builder, calls>>

\* the first call ends: classify its response, retry, or return its error
FirstReply ==
    /\ pc = "await1"
    /\ \E reply \in Replies :
        /\ replies' = Append(replies, reply)
        /\ LET r == send(reply)
           IN  IF r.ok
               THEN Classify(r.val) /\ UNCHANGED sent
               ELSE LET m == match_first_error(r.err)
                    IN  IF m.retry
                        THEN /\ sent' = Append(sent, http_request(req.val))
                             /\ pc' = "await2"
                             /\ UNCHANGED <<resp, label, result>>
                        ELSE /\ result' = m.result
                             /\ pc' = "done"
                             /\ UNCHANGED <<sent, resp, label>>
    /\ UNCHANGED <<text, req, builder, calls>>

\* variant: a retry that fails with HttpError is retried again
RetryReplyAgain ==
    /\ pc = "await2"
    /\ Len(sent) < 4
    /\ \E reply \in Replies :
        /\ replies' = Append(replies, reply)
        /\ LET r == send(reply)
           IN  IF r.ok
               THEN Classify(r.val) /\ UNCHANGED sent
               ELSE IF r.err.kind = "HttpError"
                    THEN /\ sent' = Append(sent, http_request(req.val))
                         /\ pc' = "await2"
                         /\ UNCHANGED <<resp, label, result>>
                    ELSE /\ result' = Err(to_string(r.err))
                         /\ pc' = "done"
                         /\ UNCHANGED <<sent, resp, label>>
    /\ UNCHANGED <<text, req, builder, calls>>

\* the retry ends: classify its response, or return its error whatever it is
RetryReply ==
    /\ pc = "await2"
    /\ \E reply \in Replies :
        /\ replies' = Append(replies, reply)
        /\ LET r == send(reply)
           IN  IF r.ok
               THEN Classify(r.val)
               ELSE /\ result' = Err(to_string(r.err))
                    /\ pc' = "done"
                    /\ UNCHANGED <<resp, label>>
    /\ UNCHANGED <<text, req, sent, builder, calls>>

Next == Start \/ FirstReply \/ RetryReply

Spec == Init /\ [][Next]_vars

----------------------------------------------------------------------------
(* Properties of filter_content, checked under Spec *)

IsHttpError(r) == ~r.ok /\ r.err.kind = "HttpError"
IsDeserializeError(r) == ~r.ok /\ r.err.kind = "DeserializeError"

\* what filter_content returns when its first call delivers `reply` and
\* send accepts it
OutcomeOfFirstCall(reply) ==
    map_classification_err(determine_filter_label(send(reply).val))

\* C1: when the first transport call fails with Error::HttpError, the same
\* request is sent exactly once more; a successful second call gives the
\* outcome that response would have given as the first call's, a failed one
\* gives a failure; and no execution makes a third call.
C1_RetryExactlyOnce ==
    /\ Len(sent) <= 2
    /\ (Len(replies) >= 1 /\ IsHttpError(send(replies[1]))) =>
          /\ Len(sent) = 2
          /\ sent[2] = sent[1]
          /\ Len(replies) <= 2
          /\ Len(replies) = 2 =>
                /\ pc = "done"
                /\ send(replies[2]).ok =>
                      result = OutcomeOfFirstCall(replies[2])
                /\ ~send(replies[2]).ok => ~result.ok

\* C1 happens: a transient failure, then a retry whose response is labelled
C1_Witness ==
    /\ pc = "done"
    /\ Len(replies) = 2
    /\ ~replies[1].net
    /\ replies[2].net /\ replies[2].status = 200
    /\ result = Ok("Sensitive")

NonSuccessStatus(reply) == reply.net /\ ~(200 <= reply.status /\ reply.status <= 299)

\* C2 as stated: whenever the first call is answered with a non-2xx status,
\* whatever the body, no second request is sent and a failure is returned.
C2_AnyNon2xxFailsAtOnce ==
    (Len(replies) >= 1 /\ NonSuccessStatus(replies[1])) =>
        /\ Len(sent) = 1
        /\ pc = "done"
        /\ ~result.ok

\* the non-2xx answers that send turns into ClientError or DeserializeError
RejectedAnswer(reply) ==
    /\ NonSuccessStatus(reply)
    /\ IF 400 <= reply.status /\ reply.status <= 499
       THEN reply.body.readable
       ELSE ~reply.body.readable \/ ~reply.body.conforms

\* C2 (amended): whenever the first call is answered with a 4xx status and a
\* body that can be read, or with a 3xx or 5xx status and a body that is not
\* a completion response, no second request is sent, no label is decided and
\* a failure is returned.
C2_RejectedAnswerFailsAtOnce ==
    (Len(replies) >= 1 /\ RejectedAnswer(replies[1])) =>
        /\ Len(sent) = 1
        /\ pc = "done"
        /\ label = Unset
        /\ ~result.ok

\* C2 happens: a 4xx answer whose body is a well-formed completion response
C2_Witness ==
    /\ pc = "done"
    /\ Len(replies) = 1
    /\ replies[1].net /\ replies[1].status = 400
    /\ replies[1].body.readable /\ replies[1].body.conforms
    /\ Len(replies[1].body.doc.choices) = 1
    /\ Len(sent) = 1
    /\ ~result.ok

\* C3: a second call is made only if the first failed with HttpError; a
\* first call that fails with DeserializeError, or succeeds with a response
\* determine_filter_label rejects, returns the failure after one call.
C3_SecondCallOnlyAfterHttpError ==
    /\ Len(sent) = 2 => IsHttpError(send(replies[1]))
    /\ Len(replies) >= 1 =>
          LET first == send(replies[1])
          IN  (\/ IsDeserializeError(first)
               \/ first.ok /\ ~determine_filter_label(first.val).ok) =>
                  /\ Len(sent) = 1
                  /\ Len(replies) = 1
                  /\ pc = "done"
                  /\ ~result.ok
                  /\ first.ok =>
                        label.err \in {"NoLabelFound", "TooManyLabels",
                                       "MissingLogProbs", "UnexpectedLabel"}

\* C3 happens: a 200 answer whose body is no completion response
C3_Witness ==
    /\ pc = "done"
    /\ Len(replies) = 1
    /\ replies[1].net /\ replies[1].status = 200
    /\ replies[1].body.readable /\ ~replies[1].body.conforms
    /\ Len(sent) = 1
    /\ ~result.ok

\* C4: when request construction, the final transport call or the label
\* decision fails, filter_content returns an error, never a label.
C4_FailureNeverYieldsLabel ==
    pc = "done" =>
        ((\/ ~req.ok
          \/ Len(replies) >= 1 /\ ~send(replies[Len(replies)]).ok
          \/ label # Unset /\ ~label.ok) => ~result.ok)

\* C4 happens: the retry's response carries an unknown label
C4_Witness ==
    /\ pc = "done"
    /\ Len(replies) = 2
    /\ label = Err("UnexpectedLabel")
    /\ ~result.ok

----------------------------------------------------------------------------
(* Properties of determine_filter_label, checked under SpecLabel *)

LabelDone == pc = "label_done"

\* the response has exactly one choice, with this text
SoleChoiceText(t) == Len(resp.choices) = 1 /\ resp.choices[1].text = t

\* the sole choice has log-probability data whose first element has a first
\* top-candidate map
HasFirstMap ==
    /\ resp.choices[1].log_probs.some
    /\ Len(resp.choices[1].log_probs.val) >= 1
    /\ Len(resp.choices[1].log_probs.val[1].top_logprobs) >= 1

FirstMap == resp.choices[1].log_probs.val[1].top_logprobs[1]

\* C5: one choice of text "2" whose first top-candidate map gives "2" a
\* log-probability of at least -0.355 is Unsafe, whatever "0" and "1" get.
C5_ThresholdOverride ==
    (/\ LabelDone
     /\ SoleChoiceText(<<"2">>)
     /\ HasFirstMap
     /\ "2" \in DOMAIN FirstMap
     /\ FirstMap["2"] >= -355) => label = Ok("Unsafe")

\* C5 happens: "2" exactly at the threshold, "0" and "1" both above it
C5_Witness ==
    /\ LabelDone
    /\ SoleChoiceText(<<"2">>)
    /\ HasFirstMap
    /\ DOMAIN FirstMap = {"0", "1", "2"}
    /\ FirstMap["2"] = -355
    /\ FirstMap["0"] > -355 /\ FirstMap["1"] > -355
    /\ label = Ok("Unsafe")

\* C6: one choice of text "2" whose first top-candidate map gives "2" a
\* log-probability below -0.355 is decided by "0" and "1" of that map: both
\* present, Safe when lp("0") >= lp("1") and Sensitive otherwise; only "0",
\* Safe; only "1", Sensitive; neither, Unsafe.
C6_BelowThresholdComparison ==
    (/\ LabelDone
     /\ SoleChoiceText(<<"2">>)
     /\ HasFirstMap
     /\ "2" \in DOMAIN FirstMap
     /\ FirstMap["2"] < -355) =>
        LET m == FirstMap
            has0 == "0" \in DOMAIN m
            has1 == "1" \in DOMAIN m
        IN  /\ (has0 /\ has1 /\ m["0"] >= m["1"]) => label = Ok("Safe")
            /\ (has0 /\ has1 /\ m["0"] < m["1"]) => label = Ok("Sensitive")
            /\ (has0 /\ ~has1) => label = Ok("Safe")
            /\ (~has0 /\ has1) => label = Ok("Sensitive")
            /\ (~has0 /\ ~has1) => label = Ok("Unsafe")

\* C6 happens: "0" and "1" tie below the threshold
C6_Witness ==
    /\ LabelDone
    /\ SoleChoiceText(<<"2">>)
    /\ HasFirstMap
    /\ DOMAIN FirstMap = {"0", "1", "2"}
    /\ FirstMap["2"] = -356
    /\ FirstMap["0"] = FirstMap["1"]
    /\ label = Ok("Safe")

\* C7: one choice of text "2" fails with MissingLogProbs exactly when it has
\* no log-probability data, or the data is empty, or its first element has no
\* top-candidate map, or the first map has no "2"; otherwise a label is
\* returned.
C7_MissingLogProbsExactly ==
    (LabelDone /\ SoleChoiceText(<<"2">>)) =>
        LET c == resp.choices[1]
            missing ==
                \/ ~c.log_probs.some
                \/ c.log_probs.val = <<>>
                \/ c.log_probs.val[1].top_logprobs = <<>>
                \/ "2" \notin DOMAIN c.log_probs.val[1].top_logprobs[1]
        IN  /\ missing <=> (label = Err("MissingLogProbs"))
            /\ ~missing => label.ok /\ label.val \in {"Safe", "Sensitive", "Unsafe"}

\* C7 happens: the first map has "0" and "1" but no "2"
C7_Witness ==
    /\ LabelDone
    /\ SoleChoiceText(<<"2">>)
    /\ HasFirstMap
    /\ DOMAIN FirstMap = {"0", "1"}
    /\ label = Err("MissingLogProbs")

\* C8: the number of choices is checked before any content: none fails with
\* NoLabelFound, two or more fail with TooManyLabels.
C8_ChoiceCountFirst ==
    LabelDone =>
        /\ Len(resp.choices) = 0 => label = Err("NoLabelFound")
        /\ Len(resp.choices) >= 2 => label = Err("TooManyLabels")

\* C8 happens: two choices, both of text "0"
C8_Witness ==
    /\ LabelDone
    /\ Len(resp.choices) = 2
    /\ resp.choices[1].text = <<"0">> /\ resp.choices[2].text = <<"0">>
    /\ label = Err("TooManyLabels")

\* C9: one choice whose text is not "2" is decided by the text alone: "0" is
\* Safe, "1" is Sensitive, anything else fails with UnexpectedLabel.
C9_TextAloneDecides ==
    (LabelDone /\ Len(resp.choices) = 1 /\ resp.choices[1].text # <<"2">>) =>
        label = IF resp.choices[1].text = <<"0">> THEN Ok("Safe")
                ELSE IF resp.choices[1].text = <<"1">> THEN Ok("Sensitive")
                ELSE Err("UnexpectedLabel")

\* C9 happens: text " 0" with log-probability data that favours "0"
C9_Witness ==
    /\ LabelDone
    /\ SoleChoiceText(<<" ", "0">>)
    /\ HasFirstMap
    /\ label = Err("UnexpectedLabel")

----------------------------------------------------------------------------
(* Properties of create_content_filter_request, checked under SpecRequest *)

\* C10: for every text the request is built without error, for model
\* content-filter-alpha, with max_tokens 1, temperature 0.0, top_p 0.0,
\* logprobs 10, the single prompt "<|endoftext|>" text "\n--\nLabel:", echo
\* false and nothing else set.
C10_RequestShape ==
    pc = "request_done" =>
        /\ req.ok
        /\ req.val =
              [ engine_id |-> "content-filter-alpha",
                prompt |-> [kind |-> "One",
                            one |-> <<"<", "|", "e", "n", "d", "o", "f", "t",
                                      "e", "x", "t", "|", ">">>
                                    \o text
                                    \o <<"\n", "-", "-", "\n", "L", "a", "b",
                                         "e", "l", ":">>],
                suffix |-> [some |-> FALSE],
                max_tokens |-> [some |-> TRUE, val |-> 1],
                temperature |-> [some |-> TRUE, val |-> 0],
                top_p |-> [some |-> TRUE, val |-> 0],
                n |-> [some |-> FALSE],
                log_probs |-> [some |-> TRUE, val |-> 10],
                echo |-> FALSE,
                stop |-> [kind |-> "None"],
                presence_penalty |-> [some |-> FALSE],
                best_of |-> [some |-> FALSE],
                logit |-> [some |-> FALSE] ]

\* C10 happens: a text that itself holds a line break and dashes
C10_Witness ==
    /\ pc = "request_done"
    /\ text = <<"\n", "-", "-">>
    /\ req.ok
    /\ Len(req.val.prompt.one) = 26

----------------------------------------------------------------------------
(* Properties of the response deserialization, checked under Spec *)

\* the completion response the last answer carried on the wire
LastWireDoc == replies[Len(replies)].body.doc

\* the wire response has the documented shape: its choices carry their
\* log-probabilities, if any, under `logprobs` and have no other such key
DocumentedShape(doc) ==
    \A i \in 1..Len(doc.choices) : ~doc.choices[i].log_probs.some

\* C11: a wire choice with a `logprobs` object is deserialized into a Choice
\* whose log-probability data is present and holds its top-candidate maps,
\* the data is absent only when the wire has no `logprobs`, and so one wire
\* choice of text "2" whose top_logprobs map has "2" gets a label, not
\* MissingLogProbs.
C11_WireLogprobsAreRead ==
    (pc = "done" /\ resp # Unset /\ DocumentedShape(LastWireDoc)) =>
        LET doc == LastWireDoc
        IN  /\ \A i \in 1..Len(doc.choices) :
                  LET wire == doc.choices[i]
                      choice == resp.choices[i]
                  IN  /\ choice.log_probs.some <=> wire.logprobs.some
                      /\ wire.logprobs.some =>
                            \E k \in 1..Len(choice.log_probs.val) :
                                choice.log_probs.val[k].top_logprobs
                                    = wire.logprobs.val.top_logprobs
            /\ (/\ Len(doc.choices) = 1
                /\ doc.choices[1].text = <<"2">>
                /\ doc.choices[1].logprobs.some
                /\ "2" \in DOMAIN doc.choices[1].logprobs.val.top_logprobs[1])
                  => label.ok

----------------------------------------------------------------------------
(* Properties of CreateCompletionBuilder, checked under SpecBuilder *)

\* the call hands its setter a value the setter refuses
OutOfRange(c) ==
    \/ c.setter = "max_tokens" /\ c.arg > 4096
    \/ c.setter \in {"temperature", "top_p"} /\ (c.arg < 0 \/ c.arg > 1000)
    \/ c.setter = "presence_penalty" /\ (c.arg < -2000 \/ c.arg > 2000)

InvalidCalls == {i \in 1..Len(calls) : OutOfRange(calls[i])}

FirstInvalid == CHOOSE i \in InvalidCalls : \A j \in InvalidCalls : i <= j

CallsOf(setter) == {i \in 1..Len(calls) : calls[i].setter = setter}

WasSet(setter) == CallsOf(setter) # {}

\* the argument of the last call to the setter
LastArg(setter) ==
    LET idx == CallsOf(setter)
    IN  calls[CHOOSE i \in idx : \A j \in idx : j <= i].arg

\* C12: with n and best_of both set and no setter given an invalid value,
\* build() returns the request exactly when best_of > n and an error
\* otherwise; with n or best_of unset it returns the request.
C12_BuildWantsBestOfAboveN ==
    (pc = "built" /\ InvalidCalls = {}) =>
        IF WasSet("n") /\ WasSet("best_of")
        THEN /\ req.ok <=> LastArg("best_of") > LastArg("n")
             /\ req.ok => req = builder
        ELSE req.ok /\ req = builder

\* the field as the last call to its setter, if any, leaves it
OptionField(setter) == IF WasSet(setter) THEN Some(LastArg(setter)) ELSE None

\* C13: after the first call with an out-of-range value every later call
\* leaves the builder as that call left it and build() returns the error it
\* recorded; without such a call every field of the built request has the
\* value of the last call to its setter, or its default if never set.
C13_FirstErrorSticksLastValueWins ==
    /\ InvalidCalls # {} =>
          LET first == calls[FirstInvalid].after
          IN  /\ ~first.ok
              /\ \A j \in FirstInvalid..Len(calls) : calls[j].after = first
              /\ builder = first
              /\ pc = "built" => req = first
    /\ InvalidCalls = {} => builder.ok
    /\ (InvalidCalls = {} /\ pc = "built" /\ req.ok) =>
          req.val =
              [ engine_id |-> "text-davinci-002",
                prompt |-> IF WasSet("prompt") THEN LastArg("prompt")
                           ELSE [kind |-> "None"],
                suffix |-> OptionField("suffix"),
                max_tokens |-> OptionField("max_tokens"),
                temperature |-> OptionField("temperature"),
                top_p |-> OptionField("top_p"),
                n |-> OptionField("n"),
                log_probs |-> OptionField("log_probs"),
                echo |-> IF WasSet("echo") THEN LastArg("echo") ELSE FALSE,
                stop |-> IF WasSet("stop") THEN LastArg("stop")
                         ELSE [kind |-> "None"],
                presence_penalty |-> OptionField("presence_penalty"),
                best_of |-> OptionField("best_of"),
                logit |-> OptionField("logit") ]

\* C13 happens: a temperature out of range, then a top_p out of range and a
\* valid call; build() returns the temperature call's error
C13_Witness ==
    /\ pc = "built"
    /\ Len(calls) = 3
    /\ calls[1].setter = "temperature" /\ calls[1].arg = 1001
    /\ calls[2].setter = "top_p" /\ calls[2].arg = -1
    /\ calls[3].setter = "max_tokens" /\ calls[3].arg = 16
    /\ ~req.ok
    /\ req = calls[1].after

\* C13 happens as well without an error: max_tokens set twice, the second
\* value is the built one
C13_WitnessLastValue ==
    /\ pc = "built"
    /\ Len(calls) = 3
    /\ calls[1].setter = "max_tokens" /\ calls[1].arg = 16
    /\ calls[2].setter = "max_tokens" /\ calls[2].arg = 4096
    /\ req.ok
    /\ req.val.max_tokens = [some |-> TRUE, val |-> 4096]

====
